---- MODULE Spec2Model ----
(***************************************************************************)
(* State-machine model of the ai-news-radar client scripts:                *)
(*   - the main page script (state, filtering, grouping, rendering,        *)
(*     accordion persistence, init and the DOM event listeners);           *)
(*   - the Vue page variants (data, computed labels, mounted hook).        *)
(*                                                                         *)
(* JavaScript values are encoded uniformly as sequences of one-character   *)
(* strings; the values undefined and null are the two sentinel sequences   *)
(* UNDEF and NULL, which are not strings of the program.                   *)
(***************************************************************************)
EXTENDS Integers, Sequences, FiniteSets, TLC

----------------------------------------------------------------------------
(* Bounds of the model. *)

\* Bound on the number of feed items a snapshot holds.
MaxItems == 2

\* Bound on the number of accordion toggle events in one behaviour.
MaxToggles == 2

\* Bound on the number of page reloads in one behaviour.
MaxReloads == 1

----------------------------------------------------------------------------
(* JavaScript values and string primitives. *)

UNDEF == <<"<undefined>">>

NULL == <<"<null>">>

\* JavaScript truthiness of a string / undefined / null.
Truthy(v) == v # UNDEF /\ v # NULL /\ v # <<>>

\* x || d
OrElse(v, d) == IF Truthy(v) THEN v ELSE d

\* String(x), also the coercion done by a template literal ${x}.
Str(v) ==
  IF v = UNDEF THEN <<"u", "n", "d", "e", "f", "i", "n", "e", "d">>
  ELSE IF v = NULL THEN <<"n", "u", "l", "l">>
  ELSE v

LowerChar(c) == IF c = "A" THEN "a" ELSE IF c = "B" THEN "b" ELSE c

\* String.prototype.toLowerCase
ToLowerCase(s) == [i \in 1..Len(s) |-> LowerChar(s[i])]

RECURSIVE TrimStart(_)
TrimStart(s) == IF s # <<>> /\ Head(s) = " " THEN TrimStart(Tail(s)) ELSE s

RECURSIVE TrimEnd(_)
TrimEnd(s) ==
  IF s # <<>> /\ s[Len(s)] = " " THEN TrimEnd(SubSeq(s, 1, Len(s) - 1)) ELSE s

\* String.prototype.trim
Trim(s) == TrimEnd(TrimStart(s))

\* String.prototype.includes
Includes(hay, q) ==
  \E i \in 0..(Len(hay) - Len(q)) : SubSeq(hay, i + 1, i + Len(q)) = q

\* encodeURIComponent on one character: the separators and the escape
\* character are percent-encoded, letters and digits are kept.
EncodeChar(c) ==
  IF c = "|" THEN <<"%", "7", "C">>
  ELSE IF c = ":" THEN <<"%", "3", "A">>
  ELSE IF c = "%" THEN <<"%", "2", "5">>
  ELSE IF c = " " THEN <<"%", "2", "0">>
  ELSE <<c>>

RECURSIVE encodeURIComponent(_)
encodeURIComponent(s) ==
  IF s = <<>> THEN <<>> ELSE EncodeChar(Head(s)) \o encodeURIComponent(Tail(s))

\* Collation rank of a character under localeCompare(_, "zh-CN"): space and
\* punctuation sort before digits, digits before Latin letters, Latin
\* letters before Han characters.
CharRank(c) ==
  CASE c = " " -> 0
    [] c = ":" -> 1
    [] c = "%" -> 2
    [] c = "|" -> 3
    [] c = "1" -> 10
    [] c = "2" -> 11
    [] c = "3" -> 12
    [] c = "a" -> 20
    [] c = "b" -> 21
    [] c = "d" -> 22
    [] c = "e" -> 23
    [] c = "f" -> 24
    [] c = "i" -> 25
    [] c = "l" -> 26
    [] c = "n" -> 27
    [] c = "s" -> 28
    [] c = "t" -> 29
    [] c = "u" -> 30
    [] c = "x" -> 31
    [] c = "y" -> 32
    [] c = "z" -> 33
    [] OTHER -> 40

\* a.localeCompare(b, "zh-CN") for strings a and b: -1, 0 or 1.
RECURSIVE localeCompare(_, _)
localeCompare(a, b) ==
  IF a = <<>> /\ b = <<>> THEN 0
  ELSE IF a = <<>> THEN -1
  ELSE IF b = <<>> THEN 1
  ELSE IF CharRank(Head(a)) < CharRank(Head(b)) THEN -1
  ELSE IF CharRank(Head(a)) > CharRank(Head(b)) THEN 1
  ELSE localeCompare(Tail(a), Tail(b))

----------------------------------------------------------------------------
(* News items and snapshots. *)

\* A NewsItem as it appears in the snapshot; a missing field is UNDEF.
Item(url, title, title_zh, title_en, site_id, site_name, source) ==
  [url |-> url, title |-> title, title_zh |-> title_zh, title_en |-> title_en,
   site_id |-> site_id, site_name |-> site_name, source |-> source]

\* The items snapshots are drawn from: two items of site "x" (one without
\* site_name and source), one of site "y", and two items without site_name
\* whose site_id is null and missing.
P1 == Item(<<"1">>, <<"A">>, UNDEF, UNDEF, <<"x">>, <<"b">>, <<"s">>)

P2 == Item(<<"2">>, <<"a">>, <<"b">>, UNDEF, <<"x">>, UNDEF, UNDEF)

P3 == Item(<<"3">>, UNDEF, UNDEF, <<"B">>, <<"y">>, <<"a">>, <<"s">>)

P4 == Item(<<"4">>, <<"b">>, UNDEF, UNDEF, NULL, UNDEF, <<"|">>)

P5 == Item(<<"5">>, <<"a">>, UNDEF, UNDEF, UNDEF, UNDEF, <<"t">>)

\* The feed, in publication order; a snapshot holds the items of a time
\* window of it.
Feed == <<P2, P1, P3, P5, P4>>

\* The windows of at most n consecutive items of the feed.
Windows(n) ==
  {SubSeq(Feed, w[1], w[2]) :
     w \in {v \in (1..Len(Feed)) \X (0..Len(Feed)) :
              v[2] >= v[1] - 1 /\ v[2] - v[1] + 1 <= n}}

\* The values the search box takes: empty, whitespace only, and a query
\* with surrounding blanks, an upper-case letter and an inner blank.
Queries == {<<>>, <<" ">>, <<" ", "A", " ", "b">>}

----------------------------------------------------------------------------
(* Generic sequence helpers standing for Array.prototype methods. *)

\* Array.prototype.sort(compareFn), stable since ES2019: an element is
\* preceded by the elements that compare before it and by the elements
\* that compare equal to it and came earlier in the array.
\* cmp[i, j] is the comparator's result on the elements at i and j.
Sort(seq, cmp) ==
  LET n == Len(seq)
      pos(i) == 1 + Cardinality({j \in 1..n :
                      \/ cmp[j, i] < 0
                      \/ (cmp[j, i] = 0 /\ j < i)})
  IN [k \in 1..n |-> seq[CHOOSE i \in 1..n : pos(i) = k]]

\* The comparator is called on some pair of rows whose counts tie and whose
\* compared names are both not strings: every engine then evaluates
\* <non-string>.localeCompare and throws a TypeError.
SortMustThrow(counts, names) ==
  \E i, j \in 1..Len(counts) :
    /\ i # j
    /\ counts[i] = counts[j]
    /\ names[i] \in {UNDEF, NULL}
    /\ names[j] \in {UNDEF, NULL}

\* Some tie involves a name that is not a string: whether the comparator
\* receives it as the receiver of localeCompare (TypeError) or as its
\* argument (coerced with String) depends on the engine's sort.
SortMayThrow(counts, names) ==
  \E i, j \in 1..Len(counts) :
    /\ i # j
    /\ counts[i] = counts[j]
    /\ names[i] \in {UNDEF, NULL}

\* The outcomes of a sort call: TRUE stands for "throws".
ThrowChoices(must, may) ==
  IF must THEN {TRUE} ELSE IF may THEN {TRUE, FALSE} ELSE {FALSE}

----------------------------------------------------------------------------
(* Accordion persistence: keys, the in-memory map and its JSON text. *)

\* The JavaScript booleans as stored in state.accordionState.
TRUE_V == <<"<true>">>

FALSE_V == <<"<false>">>

BoolVal(b) == IF b THEN TRUE_V ELSE FALSE_V

\* Array.prototype.join("|") on a sequence of strings.
RECURSIVE JoinBar(_)
JoinBar(parts) ==
  IF parts = <<>> THEN <<>>
  ELSE IF Len(parts) = 1 THEN parts[1]
  ELSE parts[1] \o <<"|">> \o JoinBar(Tail(parts))

\* parts.map((x) => encodeURIComponent(String(x || ""))).join("|")
makeAccordionId(parts) ==
  JoinBar([i \in 1..Len(parts) |-> encodeURIComponent(Str(OrElse(parts[i], <<>>)))])

\* state.accordionState[id]: undefined when the key is absent.
SavedValue(acc, id) == IF id \in DOMAIN acc THEN acc[id] ELSE UNDEF

\* Mutant of bindAccordionOpen: any truthy saved value opens the panel.
bindAccordionOpenTruthy(acc, id, defaultOpen) ==
  LET saved == SavedValue(acc, id)
  IN IF saved \in {UNDEF, FALSE_V} THEN defaultOpen ELSE TRUE

\* node.open as bindAccordionState sets it.
bindAccordionOpen(acc, id, defaultOpen) ==
  LET saved == SavedValue(acc, id)
  IN IF saved \in {TRUE_V, FALSE_V} THEN saved = TRUE_V ELSE defaultOpen

\* The JSON text of a value of the map.
JsonToken(v) ==
  IF v = TRUE_V THEN "true" ELSE IF v = FALSE_V THEN "false" ELSE "string"

\* JSON.stringify(state.accordionState || {}): the text, as the set of its
\* "key": value members.
JsonStringify(acc) == {<<k, JsonToken(acc[k])>> : k \in DOMAIN acc}

\* JSON.parse of such a text.
JsonParse(raw) ==
  [k \in {m[1] : m \in raw} |->
     LET m == CHOOSE m \in raw : m[1] = k
     IN IF m[2] = "true" THEN TRUE_V
        ELSE IF m[2] = "false" THEN FALSE_V ELSE <<"s">>]

\* The empty object {}.
EmptyMap == [k \in {} |-> UNDEF]

\* readAccordionState: getItem throwing, a missing entry, a parse failure
\* and a JSON value that is not an object all give {}. The stored text is
\* "absent" (getItem returns null), "corrupt" (not JSON), "scalar" (the JSON
\* text of a number, a string, a boolean or null) or the set of members of
\* a JSON object.
readAccordionState(stored, getItemThrows) ==
  IF getItemThrows THEN EmptyMap
  ELSE IF stored.kind = "absent" THEN EmptyMap
  ELSE IF stored.kind = "corrupt" THEN EmptyMap
  ELSE IF stored.kind = "scalar" THEN EmptyMap
  ELSE JsonParse(stored.members)

\* Mutant of writeAccordionState: the map is never written.
writeAccordionStateNever(stored, acc, setItemThrows) == stored

\* writeAccordionState: the stored text after setItem, which may throw.
writeAccordionState(stored, acc, setItemThrows) ==
  IF setItemThrows THEN stored
  ELSE [kind |-> "json", members |-> JsonStringify(acc)]

----------------------------------------------------------------------------
(* Grouping and filtering engine of the main page script. *)

\* new Intl.NumberFormat("zh-CN").format(n || 0): for the counts of the
\* model (below 1000) the decimal numeral of n.
fmtNumber(n) == n

\* The Map computeSiteStats fills, in insertion order.
RECURSIVE StatsRows(_, _)
StatsRows(items, acc) ==
  IF items = <<>> THEN acc
  ELSE
    LET item == Head(items)
        hit == {i \in 1..Len(acc) : acc[i].site_id = item.site_id}
    IN IF hit = {}
       THEN StatsRows(Tail(items),
              Append(acc, [site_id |-> item.site_id, site_name |-> item.site_name,
                           count |-> 1, raw_count |-> 1]))
       ELSE LET i == CHOOSE i \in hit : TRUE
            IN StatsRows(Tail(items),
                 [acc EXCEPT ![i].count = @ + 1, ![i].raw_count = @ + 1])

\* (a, b) => b.count - a.count || a.site_name.localeCompare(b.site_name, "zh-CN")
cmpStats(a, b) ==
  IF b.count - a.count # 0 THEN b.count - a.count
  ELSE localeCompare(Str(a.site_name), Str(b.site_name))

\* The counts and the names the comparator reads from the rows.
RowCounts(rows) == [i \in 1..Len(rows) |-> rows[i].count]

RowSiteNames(rows) == [i \in 1..Len(rows) |-> rows[i].site_name]

\* computeSiteStats when its sort does not throw.
computeSiteStats(items) ==
  LET rows == StatsRows(items, <<>>)
  IN Sort(rows, [i, j \in 1..Len(rows) |-> cmpStats(rows[i], rows[j])])

\* Whether computeSiteStats throws: the set of possible outcomes.
computeSiteStatsThrows(items) ==
  LET rows == StatsRows(items, <<>>)
  IN ThrowChoices(SortMustThrow(RowCounts(rows), RowSiteNames(rows)),
                  SortMayThrow(RowCounts(rows), RowSiteNames(rows)))

\* Mutant of effectiveAllItems: the two arrays swapped.
effectiveAllItemsSwapped(st) == IF st.allDedup THEN st.itemsAllRaw ELSE st.itemsAll

effectiveAllItems(st) == IF st.allDedup THEN st.itemsAll ELSE st.itemsAllRaw

modeItems(st) == IF st.mode = "all" THEN effectiveAllItems(st) ELSE st.itemsAi

\* The array currentSiteStats aggregates.
currentSiteItems(st) ==
  IF st.mode = "ai" THEN st.itemsAi
  ELSE IF st.allDedup THEN st.itemsAll ELSE st.itemsAllRaw

currentSiteStats(st) == computeSiteStats(currentSiteItems(st))

\* The search haystack of an item: the five fields, each || "", joined by
\* single blanks and lower-cased.
Hay(item) ==
  ToLowerCase(OrElse(item.title, <<>>) \o <<" ">> \o OrElse(item.title_zh, <<>>)
              \o <<" ">> \o OrElse(item.title_en, <<>>) \o <<" ">>
              \o OrElse(item.site_name, <<>>) \o <<" ">> \o OrElse(item.source, <<>>))

\* Mutant of KeepItem: the query is lower-cased but not trimmed.
KeepItemNoTrim(st, item) ==
  LET q == ToLowerCase(st.query)
  IN IF Truthy(st.siteFilter) /\ item.site_id # st.siteFilter THEN FALSE
     ELSE IF ~Truthy(q) THEN TRUE
     ELSE Includes(Hay(item), q)

\* The predicate of the filter callback in getFilteredItems.
KeepItem(st, item) ==
  LET q == ToLowerCase(Trim(st.query))
  IN IF Truthy(st.siteFilter) /\ item.site_id # st.siteFilter THEN FALSE
     ELSE IF ~Truthy(q) THEN TRUE
     ELSE Includes(Hay(item), q)

getFilteredItems(st) ==
  LET keep(item) == KeepItem(st, item)
  IN SelectSeq(modeItems(st), keep)

\* The default source label of groupBySource (a Han string, written here
\* as one character that collates after the Latin letters).
UNPARTITIONED == <<"WEI">>

\* item.source || <default label>
SourceKey(item) == OrElse(item.source, UNPARTITIONED)

\* The Map groupBySource fills, in insertion order.
RECURSIVE SourceRows(_, _)
SourceRows(items, acc) ==
  IF items = <<>> THEN acc
  ELSE
    LET item == Head(items)
        hit == {i \in 1..Len(acc) : acc[i].source = SourceKey(item)}
    IN IF hit = {}
       THEN SourceRows(Tail(items),
              Append(acc, [source |-> SourceKey(item), items |-> <<item>>]))
       ELSE LET i == CHOOSE i \in hit : TRUE
            IN SourceRows(Tail(items), [acc EXCEPT ![i].items = Append(@, item)])

\* (a, b) => b[1].length - a[1].length || a[0].localeCompare(b[0], "zh-CN")
cmpSource(a, b) ==
  IF Len(b.items) - Len(a.items) # 0 THEN Len(b.items) - Len(a.items)
  ELSE localeCompare(a.source, b.source)

groupBySource(items) ==
  LET rows == SourceRows(items, <<>>)
  IN Sort(rows, [i, j \in 1..Len(rows) |-> cmpSource(rows[i], rows[j])])

----------------------------------------------------------------------------
(* Renderer of the main page script: the DOM subtrees as values. *)

SITE == <<"s", "i", "t", "e">>

SOURCE == <<"s", "o", "u", "r", "c", "e">>

ALL == <<"a", "l", "l">>

\* The template literal `site:${id}`.
SiteCtx(id) == SITE \o <<":">> \o Str(id)

\* buildSourceGroupNode: a <details> panel of one source group.
buildSourceGroupNode(source, items, accordionId, acc) ==
  [source |-> source, count |-> fmtNumber(Len(items)), key |-> accordionId,
   open |-> bindAccordionOpen(acc, accordionId, FALSE), items |-> items]

\* The panels renderGroupedBySource appends for a list of source groups
\* under the grouping context ctx.
SourcePanels(groups, ctx, acc) ==
  [i \in 1..Len(groups) |->
     buildSourceGroupNode(groups[i].source, groups[i].items,
                          makeAccordionId(<<SOURCE, ctx, groups[i].source>>), acc)]

renderGroupedBySource(st, items) ==
  SourcePanels(groupBySource(items),
               IF Truthy(st.siteFilter) THEN SiteCtx(st.siteFilter) ELSE ALL,
               st.accordionState)

\* The Map renderGroupedBySiteAndSource fills, in insertion order.
RECURSIVE SiteRows(_, _)
SiteRows(items, acc) ==
  IF items = <<>> THEN acc
  ELSE
    LET item == Head(items)
        hit == {i \in 1..Len(acc) : acc[i].site_id = item.site_id}
    IN IF hit = {}
       THEN SiteRows(Tail(items),
              Append(acc, [site_id |-> item.site_id,
                           siteName |-> IF Truthy(item.site_name)
                                        THEN item.site_name ELSE item.site_id,
                           items |-> <<item>>]))
       ELSE LET i == CHOOSE i \in hit : TRUE
            IN SiteRows(Tail(items), [acc EXCEPT ![i].items = Append(@, item)])

\* The comparator of the site sort.
cmpSite(a, b) ==
  IF Len(b.items) - Len(a.items) # 0 THEN Len(b.items) - Len(a.items)
  ELSE localeCompare(Str(a.siteName), Str(b.siteName))

SiteRowCounts(rows) == [i \in 1..Len(rows) |-> Len(rows[i].items)]

SiteRowNames(rows) == [i \in 1..Len(rows) |-> rows[i].siteName]

\* The site groups in display order, when the site sort does not throw.
SortedSites(items) ==
  LET rows == SiteRows(items, <<>>)
  IN Sort(rows, [i, j \in 1..Len(rows) |-> cmpSite(rows[i], rows[j])])

\* Whether the site sort throws: the set of possible outcomes.
siteSortThrows(items) ==
  LET rows == SiteRows(items, <<>>)
  IN ThrowChoices(SortMustThrow(SiteRowCounts(rows), SiteRowNames(rows)),
                  SortMayThrow(SiteRowCounts(rows), SiteRowNames(rows)))

renderGroupedBySiteAndSource(st, items) ==
  LET sites == SortedSites(items)
  IN [i \in 1..Len(sites) |->
        [site_id |-> sites[i].site_id,
         siteName |-> sites[i].siteName,
         count |-> fmtNumber(Len(sites[i].items)),
         key |-> makeAccordionId(<<SITE, sites[i].site_id>>),
         open |-> bindAccordionOpen(st.accordionState,
                                    makeAccordionId(<<SITE, sites[i].site_id>>), FALSE),
         sources |-> SourcePanels(groupBySource(sites[i].items),
                                  SiteCtx(sites[i].site_id), st.accordionState)]]

\* The content of #newsList: kind is "initial" (the static markup), "blank"
\* (innerHTML cleared), "error", "empty" (the no-results placeholder),
\* "bySource" or "bySite".
ListDom(kind, text, groups, sites) ==
  [kind |-> kind, text |-> text, groups |-> groups, sites |-> sites]

\* What renderList leaves in #resultCount and #newsList; thrown tells
\* whether the site sort of renderGroupedBySiteAndSource throws.
renderList(st, thrown) ==
  LET filtered == getFilteredItems(st)
  IN [resultCount |-> fmtNumber(Len(filtered)),
      newsList |->
        IF Len(filtered) = 0 THEN ListDom("empty", <<>>, <<>>, <<>>)
        ELSE IF Truthy(st.siteFilter)
          THEN ListDom("bySource", <<>>, renderGroupedBySource(st, filtered), <<>>)
        ELSE IF thrown THEN ListDom("blank", <<>>, <<>>, <<>>)
        ELSE ListDom("bySite", <<>>, <<>>, renderGroupedBySiteAndSource(st, filtered))]

\* Whether renderList throws: the set of possible outcomes.
renderListThrows(st) ==
  IF Len(getFilteredItems(st)) = 0 \/ Truthy(st.siteFilter) THEN {FALSE}
  ELSE siteSortThrows(getFilteredItems(st))

\* What renderSiteFilters leaves in #siteSelect and #sitePills: the options
\* and pills (one per stats row, after the "all" entry), the select's value
\* and the active pills.
renderSiteFilters(st) ==
  LET stats == currentSiteStats(st)
      optionValues == {Str(stats[i].site_id) : i \in 1..Len(stats)} \cup {<<>>}
  IN [stats |-> stats,
      selectValue |-> IF Str(st.siteFilter) \in optionValues
                      THEN Str(st.siteFilter) ELSE <<>>,
      allActive |-> (st.siteFilter = <<>>),
      activePills |-> {i \in 1..Len(stats) : st.siteFilter = stats[i].site_id}]

\* What renderModeSwitch leaves in the mode buttons, the dedup toggle and
\* the mode hint.
renderModeSwitch(st) ==
  [aiActive |-> (st.mode = "ai"),
   allActive |-> (st.mode = "all"),
   dedupeShown |-> (st.mode = "all"),
   dedupeChecked |-> st.allDedup,
   hintMode |-> IF st.mode = "ai" THEN "ai" ELSE "all",
   hintCount |->
     IF st.mode = "ai" THEN fmtNumber(st.totalAi)
     ELSE IF st.allDedup
       THEN fmtNumber(IF st.totalAllMode # 0 THEN st.totalAllMode ELSE Len(st.itemsAll))
     ELSE fmtNumber(IF st.totalRaw # 0 THEN st.totalRaw ELSE Len(st.itemsAllRaw))]

\* fmtTime: "unknown" for a missing or unparsable time, else the formatted
\* month/day hour:minute of the instant.
fmtTime(iso) ==
  IF ~Truthy(iso) THEN <<"unknown">>
  ELSE IF iso = <<"bad">> THEN <<"unknown">>
  ELSE <<"MM/dd HH:mm of">> \o iso

----------------------------------------------------------------------------
(* Snapshots the fetch may deliver. *)

\* An optional array field of the payload.
Absent == [present |-> FALSE, val |-> <<>>]

Present(seq) == [present |-> TRUE, val |-> seq]

\* payload.f || d for an array field: an array, even empty, is truthy.
ArrOr(f, d) == IF f.present THEN f.val ELSE d

\* A payload: the arrays and the scalar fields (a total of 0 stands for a
\* missing or zero total, which || treats alike).
Payload(items_ai, items_all, items_all_raw, items) ==
  [items_ai |-> items_ai, items_all |-> items_all,
   items_all_raw |-> items_all_raw, items |-> items,
   total_items |-> 0, total_items_raw |-> 9, total_items_all_mode |-> 8,
   follow_opml_items |-> Present(<<P1>>), generated_at |-> <<"T">>]

\* The snapshots built from a set of lists, for every list l of it: the current format with
\* items_ai = l beside fixed "all" arrays (the raw one with a duplicate),
\* the legacy format carrying l as items only, and a payload carrying l as
\* items_all only. total_items is missing, the other totals are given.
Payloads(lists) ==
  UNION {{Payload(Present(l), Present(<<P3, P1>>), Present(<<P3, P1, P1>>), Absent),
          Payload(Absent, Absent, Absent, Present(l)),
          Payload(Absent, Present(l), Absent, Absent)} : l \in lists}

\* The snapshots the page loads.
PayloadSet == Payloads(Windows(MaxItems))

\* The rejections of loadNewsData: a non-ok status, a body that is not
\* JSON, a network error. Each carries the message of the Error thrown.
HttpStatuses == {"404", "500"}

HttpMessage(status) == <<"load latest-24h.json failed: ", status>>

Rejections ==
  {[kind |-> "http", status |-> s, message |-> HttpMessage(s)] : s \in HttpStatuses}
    \cup {[kind |-> "parse", status |-> "", message |-> <<"Unexpected token">>],
          [kind |-> "network", status |-> "", message |-> <<"Failed to fetch">>]}

----------------------------------------------------------------------------
(* The Vue page variants: the component with group selection ("groups")    *)
(* and the component without it ("plain").                                 *)

\* The failure label and the two "no data" placeholders.
LOAD_FAILED == <<"data load failed">>

FOLLOW_EMPTY == <<"no follow.opml data">>

MOMOYU_EMPTY == <<"no momoyu RSS data">>

MOMOYU == <<"m", "o", "m", "o", "y", "u", "-">>

FOLLOW == <<"f", "o", "l", "l", "o", "w">>

\* momoyuParsed: null, or an object with an optional sections array.
ParsedNull == [null |-> TRUE, sections |-> [present |-> FALSE, val |-> <<>>]]

Parsed(sections) == [null |-> FALSE, sections |-> sections]

\* No rejection was caught.
NoReason == [kind |-> "none", status |-> "", message |-> <<>>]

\* data(): the component's initial data; the "plain" variant has no
\* selected keys (undefined). phase and caught are history: the position
\* of mounted() ("pending", "loaded", "failed") and the error it caught.
data(variant) ==
  [variant |-> variant, phase |-> "pending", caught |-> NoReason,
   followItems |-> <<>>, followGroups |-> <<>>, momoyuItems |-> <<>>,
   momoyuParsed |-> ParsedNull,
   selectedFollowGroupKey |-> IF variant = "groups" THEN <<>> ELSE UNDEF,
   selectedMomoyuGroupKey |-> IF variant = "groups" THEN <<>> ELSE UNDEF,
   generatedAt |-> NULL, loadError |-> <<>>]

\* The page of the main script holds no Vue component.
NoVue == [data("plain") EXCEPT !.phase = "unmounted"]

momoyuSections(d) ==
  IF ~d.momoyuParsed.null /\ d.momoyuParsed.sections.present
  THEN d.momoyuParsed.sections.val ELSE <<>>

momoyuSplitGroups(d) ==
  LET sections == momoyuSections(d)
  IN [i \in 1..Len(sections) |->
        [key |-> MOMOYU \o <<ToString(i - 1)>>,
         name |-> OrElse(sections[i].section, <<"unnamed board">>),
         entries |-> sections[i].entries]]

followSplitGroups(d) ==
  [i \in 1..Len(d.followGroups) |->
     [key |-> Str(OrElse(d.followGroups[i].subscription_url,
                         OrElse(d.followGroups[i].source, FOLLOW)))
                \o <<":", ":">> \o <<ToString(i - 1)>>,
      name |-> OrElse(d.followGroups[i].source, <<"unnamed subscription">>),
      items |-> d.followGroups[i].items]]

\* The group keys of a sequence of split groups.
GroupKeys(groups) == {groups[i].key : i \in 1..Len(groups)}

syncSelectedGroups(d) ==
  LET mg == momoyuSplitGroups(d)
      fg == followSplitGroups(d)
  IN [d EXCEPT
        !.selectedMomoyuGroupKey =
           IF Len(mg) > 0
           THEN (IF @ \in GroupKeys(mg) THEN @ ELSE mg[1].key)
           ELSE <<>>,
        !.selectedFollowGroupKey =
           IF Len(fg) > 0
           THEN (IF @ \in GroupKeys(fg) THEN @ ELSE fg[1].key)
           ELSE <<>>]

updatedLabel(d) ==
  IF Truthy(d.loadError) THEN LOAD_FAILED
  ELSE <<"updated: ">> \o fmtTime(d.generatedAt)

followEmptyText(d) == OrElse(d.loadError, FOLLOW_EMPTY)

momoyuEmptyText(d) == OrElse(d.loadError, MOMOYU_EMPTY)

\* Mutant of CaughtMessage: the caught error's message without fallback.
CaughtMessageNoFallback(err) == err.message

\* err && err.message ? err.message : <failure label>
CaughtMessage(err) == IF Truthy(err.message) THEN err.message ELSE LOAD_FAILED

\* The groups, boards and items the snapshots of the Vue pages hold.
G1 == [subscription_url |-> <<"u">>, source |-> <<"s">>, items |-> <<P1>>]

G2 == [subscription_url |-> UNDEF, source |-> UNDEF, items |-> <<>>]

S1 == [section |-> <<"b">>, entries |-> <<P3>>]

S2 == [section |-> UNDEF, entries |-> <<>>]

\* A snapshot as the Vue pages read it.
VuePayload(items, groups, momoyu, parsed, at) ==
  [follow_opml_items |-> items, follow_opml_groups |-> groups,
   momoyu_items |-> momoyu, momoyu_parsed |-> parsed, generated_at |-> at]

VuePayloads ==
  {VuePayload(items, groups, momoyu, parsed, at) :
     items \in {[present |-> FALSE, val |-> <<>>], [present |-> TRUE, val |-> <<P1>>]},
     groups \in {[present |-> FALSE, val |-> <<>>]}
                  \cup {[present |-> TRUE, val |-> g] :
                          g \in {<<G1>>, <<G1, G2>>, <<G2, G1>>}},
     momoyu \in {[present |-> FALSE, val |-> <<>>], [present |-> TRUE, val |-> <<P3>>]},
     parsed \in {ParsedNull, Parsed([present |-> FALSE, val |-> <<>>])}
                  \cup {Parsed([present |-> TRUE, val |-> b]) :
                          b \in {<<>>, <<S1>>, <<S2, S1>>}},
     at \in {UNDEF, <<"T">>, <<"bad">>}}

\* The rejections of the Vue loadNewsData: those of the main page and an
\* error without message.
VueRejections == Rejections \cup {[kind |-> "other", status |-> "", message |-> <<>>]}

----------------------------------------------------------------------------
(* The main page script as a state machine. *)

VARIABLES
  state,        \* the `state` object of the script
  storage,      \* the localStorage entry under ACCORDION_STORAGE_KEY
  phase,        \* init's position: "pending" (awaiting the fetch), "loaded", "failed"
  modeDom,      \* mode buttons, dedup toggle and mode hint
  siteDom,      \* #siteSelect and #sitePills
  resultCount,  \* #resultCount
  newsList,     \* #newsList
  updatedAt,    \* #updatedAt
  followDom,    \* #followOpmlCount and #followOpmlList
  fetched,      \* history: the arrays init assigned from the payload
  requests,     \* history: the fetch() calls of this page load (see OneRequest)
  toggles,      \* history: number of accordion toggles so far
  reloads,      \* history: number of page reloads so far
  persisted,    \* history: what the toggle handlers recorded and whether
                \* the storage took it (see NoToggles)
  lastRender,   \* history: how the last handler's render calls ended:
                \* "none" (no render yet), "done", "statsThrew"
                \* (renderSiteFilters threw, renderList was not called)
                \* or "listThrew" (renderList threw)
  notifyQueued, \* whether "toggle" events of panels rendered open are queued
  vm            \* the data of the Vue page variants' component

vars == <<state, storage, phase, modeDom, siteDom, resultCount, newsList,
          updatedAt, followDom, fetched, requests, toggles, reloads, persisted,
          lastRender, notifyQueued, vm>>

dom == <<modeDom, siteDom, resultCount, newsList, updatedAt, followDom>>

\* What the listeners of the page controls and init never touch.
untouched == <<toggles, reloads, persisted, vm>>

\* The literal the script initializes `state` with, accordionState as init
\* reads it.
InitialState(acc) ==
  [itemsAi |-> <<>>, itemsAll |-> <<>>, itemsAllRaw |-> <<>>,
   totalAi |-> 0, totalRaw |-> 0, totalAllMode |-> 0,
   followOpmlItems |-> <<>>, allDedup |-> TRUE, siteFilter |-> <<>>,
   query |-> <<>>, mode |-> "ai", generatedAt |-> NULL, accordionState |-> acc]

\* The static markup before any render.
InitialModeDom ==
  [aiActive |-> TRUE, allActive |-> FALSE, dedupeShown |-> FALSE,
   dedupeChecked |-> TRUE, hintMode |-> "initial", hintCount |-> 0]

InitialSiteDom ==
  [stats |-> <<>>, selectValue |-> <<>>, allActive |-> FALSE, activePills |-> {}]

InitialFollowDom == [count |-> 0, kind |-> "initial", items |-> <<>>]

NoFetch == [itemsAi |-> <<>>, itemsAll |-> <<>>, itemsAllRaw |-> <<>>]

NoStorage == [kind |-> "absent", members |-> {}]

\* The history of the accordion at the start: recorded maps each key to
\* the value a toggle handler last recorded for it, saved holds the keys
\* whose recording was followed by a setItem that returned and by no
\* getItem that threw, fresh tells that no toggle happened since the page
\* was loaded, readOk that the load's getItem returned.
NoToggles == [recorded |-> EmptyMap, saved |-> {}, fresh |-> TRUE, readOk |-> TRUE]

\* Whether some panel of a #newsList content is open.
AnyOpen(list) ==
  \/ \E j \in 1..Len(list.groups) : list.groups[j].open
  \/ \E i \in 1..Len(list.sites) :
       \/ list.sites[i].open
       \/ \E j \in 1..Len(list.sites[i].sources) : list.sites[i].sources[j].open

\* init has called loadNewsData once: one fetch() issued, its promise
\* pending, no payload assigned to the state yet.
OneRequest == [issued |-> 1, inFlight |-> 1, assigned |-> 0]

\* The page after the script has run to init's await, with `stored` in
\* the storage: the listeners are registered, state.accordionState is
\* read, the fetch is in flight.
Start(stored) ==
  /\ storage = stored
  /\ state = InitialState(readAccordionState(storage, FALSE))
  /\ phase = "pending"
  /\ modeDom = InitialModeDom
  /\ siteDom = InitialSiteDom
  /\ resultCount = 0
  /\ newsList = ListDom("initial", <<>>, <<>>, <<>>)
  /\ updatedAt = <<"initial">>
  /\ followDom = InitialFollowDom
  /\ fetched = NoFetch
  /\ requests = OneRequest
  /\ toggles = 0
  /\ reloads = 0
  /\ persisted = NoToggles
  /\ lastRender = "none"
  /\ notifyQueued = FALSE

\* A first visit: nothing is stored yet.
Init == Start(NoStorage) /\ vm = NoVue

\* renderSiteFilters() followed by renderList(), as every handler but the
\* search handler calls them: t1 tells whether computeSiteStats throws (the
\* handler then ends before touching the DOM), t2 whether renderList does.
RenderSiteAndList(st, t1, t2) ==
  LET r == renderList(st, t2)
  IN /\ siteDom' = IF t1 THEN siteDom ELSE renderSiteFilters(st)
     /\ resultCount' = IF t1 THEN resultCount ELSE r.resultCount
     /\ newsList' = IF t1 THEN newsList ELSE r.newsList
     /\ lastRender' = IF t1 THEN "statsThrew" ELSE IF t2 THEN "listThrew" ELSE "done"
     /\ notifyQueued' = (notifyQueued \/ (~t1 /\ AnyOpen(r.newsList)))

\* The outcomes (t1, t2) of renderSiteFilters(); renderList() in state st.
RenderOutcomes(st) ==
  {<<t1, t2>> \in BOOLEAN \X BOOLEAN :
     /\ t1 \in computeSiteStatsThrows(currentSiteItems(st))
     /\ t2 \in (IF t1 THEN {FALSE} ELSE renderListThrows(st))}

\* Mutant of SearchInput: the handler keeps the filtered list in place of
\* the array it filtered.
SearchInputInPlace(v) ==
  LET st0 == [state EXCEPT !.query = v]
      kept == getFilteredItems(st0)
      st == IF st0.mode = "ai" THEN [st0 EXCEPT !.itemsAi = kept]
            ELSE IF st0.allDedup THEN [st0 EXCEPT !.itemsAll = kept]
            ELSE [st0 EXCEPT !.itemsAllRaw = kept]
  IN /\ state' = st
     /\ \E t2 \in renderListThrows(st) :
          LET r == renderList(st, t2)
          IN /\ resultCount' = r.resultCount
             /\ newsList' = r.newsList
             /\ lastRender' = IF t2 THEN "listThrew" ELSE "done"
             /\ notifyQueued' = (notifyQueued \/ AnyOpen(r.newsList))
     /\ UNCHANGED <<storage, phase, modeDom, siteDom, updatedAt, followDom, fetched, requests, untouched>>

\* searchInputEl "input" listener.
SearchInput(v) ==
  LET st == [state EXCEPT !.query = v]
  IN /\ state' = st
     /\ \E t2 \in renderListThrows(st) :
          LET r == renderList(st, t2)
          IN /\ resultCount' = r.resultCount
             /\ newsList' = r.newsList
             /\ lastRender' = IF t2 THEN "listThrew" ELSE "done"
             /\ notifyQueued' = (notifyQueued \/ AnyOpen(r.newsList))
     /\ UNCHANGED <<storage, phase, modeDom, siteDom, updatedAt, followDom, fetched, requests, untouched>>

OnSearchInput == \E v \in Queries : SearchInput(v)

\* The body shared by the listeners that set state.siteFilter.
SetSiteFilter(v) ==
  LET st == [state EXCEPT !.siteFilter = v]
  IN /\ state' = st
     /\ \E o \in RenderOutcomes(st) : RenderSiteAndList(st, o[1], o[2])
     /\ UNCHANGED <<storage, phase, modeDom, updatedAt, followDom, fetched, requests, untouched>>

\* siteSelectEl "change" listener: e.target.value is the value attribute,
\* a string, of one of the options the last render built.
OnSiteSelectChange ==
  \E v \in {Str(siteDom.stats[i].site_id) : i \in 1..Len(siteDom.stats)} \cup {<<>>} :
    /\ v # siteDom.selectValue
    /\ SetSiteFilter(v)

\* onclick of the "all" pill and of the site pills the last render built:
\* the site pill's closure holds the row's site_id itself.
OnSitePillClick ==
  \E v \in {siteDom.stats[i].site_id : i \in 1..Len(siteDom.stats)} \cup {<<>>} :
    SetSiteFilter(v)

\* modeAiBtnEl and modeAllBtnEl "click" listeners.
ModeClick(m) ==
  LET st == [state EXCEPT !.mode = m]
  IN /\ state' = st
     /\ modeDom' = renderModeSwitch(st)
     /\ \E o \in RenderOutcomes(st) : RenderSiteAndList(st, o[1], o[2])
     /\ UNCHANGED <<storage, phase, updatedAt, followDom, fetched, requests, untouched>>

OnModeClick == \E m \in {"ai", "all"} : ModeClick(m)

\* allDedupeToggleEl "change" listener.
DedupChange(checked) ==
  LET st == [state EXCEPT !.allDedup = checked]
  IN /\ state' = st
     /\ modeDom' = renderModeSwitch(st)
     /\ \E o \in RenderOutcomes(st) : RenderSiteAndList(st, o[1], o[2])
     /\ UNCHANGED <<storage, phase, updatedAt, followDom, fetched, requests, untouched>>

OnDedupChange == DedupChange(~modeDom.dedupeChecked)

\* renderFollowOpml
renderFollowOpml(st) ==
  [count |-> fmtNumber(Len(st.followOpmlItems)),
   kind |-> IF Len(st.followOpmlItems) = 0 THEN "empty" ELSE "items",
   items |-> st.followOpmlItems]

\* The assignments of init's fulfilled branch.
LoadedState(st, payload) ==
  LET ai == ArrOr(payload.items_ai, ArrOr(payload.items, <<>>))
      raw == ArrOr(payload.items_all_raw,
                   ArrOr(payload.items_all, ArrOr(payload.items, <<>>)))
      all == ArrOr(payload.items_all, ArrOr(payload.items, <<>>))
  IN [st EXCEPT
        !.itemsAi = ai,
        !.itemsAllRaw = raw,
        !.itemsAll = all,
        !.totalAi = IF payload.total_items # 0 THEN payload.total_items ELSE Len(ai),
        !.totalRaw = IF payload.total_items_raw # 0
                     THEN payload.total_items_raw ELSE Len(raw),
        !.totalAllMode = IF payload.total_items_all_mode # 0
                         THEN payload.total_items_all_mode ELSE Len(all),
        !.followOpmlItems = ArrOr(payload.follow_opml_items, <<>>),
        !.generatedAt = payload.generated_at]

\* init resumes with the fetch fulfilled.
InitFulfilled(payload) ==
  LET st == LoadedState(state, payload)
  IN /\ phase = "pending"
     /\ phase' = "loaded"
     /\ state' = st
     /\ fetched' = [itemsAi |-> st.itemsAi, itemsAll |-> st.itemsAll,
                    itemsAllRaw |-> st.itemsAllRaw]
     /\ requests' = [requests EXCEPT !.inFlight = @ - 1, !.assigned = @ + 1]
     /\ followDom' = renderFollowOpml(st)
     /\ modeDom' = renderModeSwitch(st)
     /\ \E o \in RenderOutcomes(st) :
          /\ RenderSiteAndList(st, o[1], o[2])
          /\ updatedAt' = IF o[1] \/ o[2] THEN updatedAt
                          ELSE <<"updated: ">> \o fmtTime(st.generatedAt)
     /\ UNCHANGED <<storage, untouched>>

\* Mutant of InitRejected: a failed fetch is tried again.
InitRejectedRetries(reason) ==
  /\ phase = "pending"
  /\ phase' = "pending"
  /\ requests' = [requests EXCEPT !.issued = @ + 1]
  /\ updatedAt' = <<"news load failed">>
  /\ newsList' = ListDom("error", reason.message, <<>>, <<>>)
  /\ lastRender' = "none"
  /\ UNCHANGED <<state, storage, modeDom, siteDom, resultCount, followDom, fetched,
                 untouched, notifyQueued>>

\* init resumes with the fetch rejected.
InitRejected(reason) ==
  /\ phase = "pending"
  /\ phase' = "failed"
  /\ requests' = [requests EXCEPT !.inFlight = @ - 1]
  /\ updatedAt' = <<"news load failed">>
  /\ newsList' = ListDom("error", reason.message, <<>>, <<>>)
  /\ lastRender' = "none"
  /\ UNCHANGED <<state, storage, modeDom, siteDom, resultCount, followDom, fetched,
                 untouched, notifyQueued>>

FetchFulfilled == \E payload \in PayloadSet : InitFulfilled(payload)

FetchRejected == \E reason \in Rejections : InitRejected(reason)

Next ==
  \/ OnSearchInput
  \/ OnSiteSelectChange
  \/ OnSitePillClick
  \/ OnModeClick
  \/ OnDedupChange
  \/ FetchFulfilled
  \/ FetchRejected

Spec == Init /\ [][Next]_vars

----------------------------------------------------------------------------
(* Accordion toggles, their persistence and page reloads. *)

\* obj[k] = v on a plain object.
MapSet(acc, k, v) == [x \in (DOMAIN acc) \cup {k} |-> IF x = k THEN v ELSE acc[x]]

\* The panels of #newsList a user can toggle: the source groups of the
\* single-level list, the site groups, and the source groups inside an open
\* site group.
PanelPaths ==
  {<<"group", 0, j>> : j \in 1..Len(newsList.groups)}
    \cup {<<"site", i, 0>> : i \in 1..Len(newsList.sites)}
    \cup UNION {{<<"source", i, j>> : j \in 1..Len(newsList.sites[i].sources)} :
                  i \in {k \in 1..Len(newsList.sites) : newsList.sites[k].open}}

\* The accordion id and the open flag of the panel at a path.
PanelAt(list, path) ==
  IF path[1] = "group"
    THEN [key |-> list.groups[path[3]].key, open |-> list.groups[path[3]].open]
  ELSE IF path[1] = "site"
    THEN [key |-> list.sites[path[2]].key, open |-> list.sites[path[2]].open]
  ELSE [key |-> list.sites[path[2]].sources[path[3]].key,
        open |-> list.sites[path[2]].sources[path[3]].open]

\* The user opens or closes the panel at a path.
FlipOpen(list, path) ==
  IF path[1] = "group" THEN [list EXCEPT !.groups[path[3]].open = ~@]
  ELSE IF path[1] = "site" THEN [list EXCEPT !.sites[path[2]].open = ~@]
  ELSE [list EXCEPT !.sites[path[2]].sources[path[3]].open = ~@]

\* Mutant of Toggle: a refused write ends the listener before the map is
\* updated.
ToggleAbortsOnThrow(path, setItemThrows) ==
  LET list == FlipOpen(newsList, path)
      node == PanelAt(list, path)
      acc == MapSet(state.accordionState, node.key, BoolVal(node.open))
  IN /\ toggles < MaxToggles
     /\ ~notifyQueued
     /\ newsList' = list
     /\ state' = IF setItemThrows THEN state ELSE [state EXCEPT !.accordionState = acc]
     /\ storage' = writeAccordionState(storage, acc, setItemThrows)
     /\ toggles' = toggles + 1
     /\ persisted' = [persisted EXCEPT
                        !.recorded = MapSet(@, node.key, BoolVal(node.open)),
                        !.saved = IF setItemThrows THEN @ \ {node.key}
                                  ELSE @ \cup {node.key},
                        !.fresh = FALSE]
     /\ UNCHANGED <<phase, modeDom, siteDom, resultCount, updatedAt, followDom,
                    fetched, requests, reloads, lastRender, notifyQueued, vm>>

\* The "toggle" listener bindAccordionState registers, run for a panel the
\* user has just opened or closed; setItemThrows tells whether the storage
\* refuses the write.
Toggle(path, setItemThrows) ==
  LET list == FlipOpen(newsList, path)
      node == PanelAt(list, path)
      acc == MapSet(state.accordionState, node.key, BoolVal(node.open))
  IN /\ toggles < MaxToggles
     /\ ~notifyQueued
     /\ newsList' = list
     /\ state' = [state EXCEPT !.accordionState = acc]
     /\ storage' = writeAccordionState(storage, acc, setItemThrows)
     /\ toggles' = toggles + 1
     /\ persisted' = [persisted EXCEPT
                        !.recorded = MapSet(@, node.key, BoolVal(node.open)),
                        !.saved = IF setItemThrows THEN @ \ {node.key}
                                  ELSE @ \cup {node.key},
                        !.fresh = FALSE]
     /\ UNCHANGED <<phase, modeDom, siteDom, resultCount, updatedAt, followDom,
                    fetched, requests, reloads, lastRender, notifyQueued, vm>>

OnToggle == \E path \in PanelPaths, t \in BOOLEAN : Toggle(path, t)

\* The same listener run by the "toggle" events the browser queues when a
\* render sets node.open = true: each records the value the map already
\* holds for its panel and writes the map again.
DetailsNotification(setItemThrows) ==
  /\ notifyQueued
  /\ notifyQueued' = FALSE
  /\ storage' = writeAccordionState(storage, state.accordionState, setItemThrows)
  /\ UNCHANGED <<state, phase, dom, fetched, requests, untouched, lastRender>>

OnDetailsNotification == \E t \in BOOLEAN : DetailsNotification(t)

\* The page is loaded again: the script starts over with what the storage
\* holds; getItemThrows tells whether the storage refuses the read.
Reload(getItemThrows) ==
  /\ reloads < MaxReloads
  /\ reloads' = reloads + 1
  /\ state' = InitialState(readAccordionState(storage, getItemThrows))
  /\ phase' = "pending"
  /\ modeDom' = InitialModeDom
  /\ siteDom' = InitialSiteDom
  /\ resultCount' = 0
  /\ newsList' = ListDom("initial", <<>>, <<>>, <<>>)
  /\ updatedAt' = <<"initial">>
  /\ followDom' = InitialFollowDom
  /\ fetched' = NoFetch
  /\ requests' = OneRequest
  /\ lastRender' = "none"
  /\ notifyQueued' = FALSE
  /\ persisted' = [persisted EXCEPT
                     !.saved = IF getItemThrows THEN {} ELSE @,
                     !.fresh = TRUE,
                     !.readOk = ~getItemThrows]
  /\ UNCHANGED <<storage, toggles, vm>>

OnReload == \E t \in BOOLEAN : Reload(t)

\* The texts an earlier visit or another script may have left in the
\* storage: none, a text that is not JSON, a JSON scalar, a saved map, and
\* an object holding a string under a panel's key.
StoredTexts ==
  {NoStorage,
   [kind |-> "corrupt", members |-> {}],
   [kind |-> "scalar", members |-> {}],
   [kind |-> "json",
    members |-> JsonStringify(MapSet(EmptyMap, makeAccordionId(<<SITE, <<"y">>>>),
                                     TRUE_V))],
   [kind |-> "json",
    members |-> {<<makeAccordionId(<<SITE, <<"x">>>>), "string">>}]}

\* The snapshot of the accordion scenarios: items_ai = [A of site x, B of
\* site y] beside "all" arrays of the same two sites.
AccordionPayloads ==
  {Payload(Present(<<P1, P3>>), Present(<<P3, P1>>), Present(<<P3, P1, P1>>), Absent)}

FetchFulfilledAccordion == \E payload \in AccordionPayloads : InitFulfilled(payload)

InitAccordion == (\E stored \in StoredTexts : Start(stored)) /\ vm = NoVue

NextAccordion ==
  \/ OnSitePillClick
  \/ OnModeClick
  \/ FetchFulfilledAccordion
  \/ FetchRejected
  \/ OnToggle
  \/ OnDetailsNotification
  \/ OnReload

SpecAccordion == InitAccordion /\ [][NextAccordion]_vars

----------------------------------------------------------------------------
(* One visit of the page with every listener at work: searches, site
   filters, mode changes, the dedup switch and toggles over the panels of
   one snapshot, or over the page a failed fetch leaves. *)

\* The search texts of the visit: none, and one only the item of site x
\* matches.
PanelQueries == {<<>>, <<"b", " ", "s">>}

OnSearchPanels == \E v \in PanelQueries : SearchInput(v)

\* What the storage holds when the visit starts: nothing, a map saying
\* site y is open, or an object holding a string under the key of site x.
PanelStoredTexts == {t \in StoredTexts : t.kind \in {"absent", "json"}}

InitPanels == (\E stored \in PanelStoredTexts : Start(stored)) /\ vm = NoVue

NextPanels ==
  \/ OnSearchPanels
  \/ OnSiteSelectChange
  \/ OnSitePillClick
  \/ OnModeClick
  \/ OnDedupChange
  \/ FetchFulfilledAccordion
  \/ FetchRejected
  \/ OnToggle
  \/ OnDetailsNotification

SpecPanels == InitPanels /\ [][NextPanels]_vars

----------------------------------------------------------------------------
(* The Vue components as a state machine. *)

\* mounted() resumes with loadNewsData fulfilled.
MountedFulfilled(payload) ==
  LET d == [vm EXCEPT
              !.followItems = ArrOr(payload.follow_opml_items, <<>>),
              !.followGroups = ArrOr(payload.follow_opml_groups, <<>>),
              !.momoyuItems = ArrOr(payload.momoyu_items, <<>>),
              !.momoyuParsed = payload.momoyu_parsed,
              !.generatedAt = OrElse(payload.generated_at, NULL)]
  IN /\ vm.phase = "pending"
     /\ vm' = [(IF vm.variant = "groups" THEN syncSelectedGroups(d) ELSE d)
                 EXCEPT !.loadError = <<>>, !.phase = "loaded"]
     /\ UNCHANGED <<state, storage, phase, dom, fetched, requests, toggles, reloads,
                    persisted, lastRender, notifyQueued>>

\* mounted() resumes with loadNewsData rejected: the catch block.
MountedRejected(err) ==
  /\ vm.phase = "pending"
  /\ vm' = [vm EXCEPT
              !.loadError = CaughtMessage(err),
              !.followItems = <<>>,
              !.followGroups = <<>>,
              !.momoyuItems = <<>>,
              !.momoyuParsed = ParsedNull,
              !.selectedFollowGroupKey = IF vm.variant = "groups" THEN <<>> ELSE @,
              !.selectedMomoyuGroupKey = IF vm.variant = "groups" THEN <<>> ELSE @,
              !.generatedAt = NULL,
              !.phase = "failed",
              !.caught = err]
  /\ UNCHANGED <<state, storage, phase, dom, fetched, requests, toggles, reloads,
                 persisted, lastRender, notifyQueued>>

VueFetchFulfilled == \E payload \in VuePayloads : MountedFulfilled(payload)

VueFetchRejected == \E err \in VueRejections : MountedRejected(err)

\* Either component, created and mounted, awaiting its fetch.
InitVue == Start(NoStorage) /\ vm \in {data("groups"), data("plain")}

NextVue == VueFetchFulfilled \/ VueFetchRejected

SpecVue == InitVue /\ [][NextVue]_vars

----------------------------------------------------------------------------
(* Properties of the main page script. *)

\* The array the current mode and dedup selection designate.
SelectedArray ==
  IF state.mode = "ai" THEN state.itemsAi
  ELSE IF state.allDedup THEN state.itemsAll ELSE state.itemsAllRaw

\* C1: with an empty query and an empty site filter, getFilteredItems
\* returns exactly the mode-selected array (itemsAi in "ai" mode, itemsAll
\* in "all" mode with dedup on, itemsAllRaw with dedup off): same elements,
\* same order.
C1_EmptyFilterReturnsSelectedArray ==
  (state.query = <<>> /\ state.siteFilter = <<>>)
    => getFilteredItems(state) = SelectedArray

\* C1 witness: a loaded page in "all" mode with dedup off, no query and no
\* filter, whose raw array differs from the deduplicated one and was
\* rendered in full.
C1_Witness ==
  /\ phase = "loaded"
  /\ state.mode = "all" /\ ~state.allDedup
  /\ state.query = <<>> /\ state.siteFilter = <<>>
  /\ state.itemsAllRaw # state.itemsAll
  /\ state.itemsAllRaw # state.itemsAi
  /\ Len(state.itemsAllRaw) = 3
  /\ lastRender = "done"
  /\ resultCount = 3

\* The haystack the claim describes: the five fields, missing ones empty,
\* joined by blanks.
ClaimHay(item) ==
  LET f(v) == IF v \in {UNDEF, NULL} THEN <<>> ELSE v
  IN f(item.title) \o <<" ">> \o f(item.title_zh) \o <<" ">> \o f(item.title_en)
       \o <<" ">> \o f(item.site_name) \o <<" ">> \o f(item.source)

\* The items the claim says are retained.
ClaimRetained(item) ==
  /\ (state.siteFilter \notin {<<>>, UNDEF, NULL}) => item.site_id = state.siteFilter
  /\ Trim(state.query) # <<>>
       => Includes(ToLowerCase(ClaimHay(item)), ToLowerCase(Trim(state.query)))

\* C2: getFilteredItems returns exactly the order-preserving subsequence
\* of the mode-selected array whose items have site_id equal to the site
\* filter (when one is set) and contain the trimmed, lower-cased query in
\* the lower-cased haystack of title, title_zh, title_en, site_name and
\* source (when the trimmed query is non-empty); every returned item has
\* the filter's site_id and a whitespace-only query filters nothing.
C2_FilterIsExactSubsequence ==
  LET got == getFilteredItems(state)
  IN /\ got = SelectSeq(SelectedArray, ClaimRetained)
     /\ Truthy(state.siteFilter)
          => \A i \in 1..Len(got) : got[i].site_id = state.siteFilter
     /\ (Trim(state.query) = <<>> /\ ~Truthy(state.siteFilter))
          => got = SelectedArray

\* C2 witness: a site filter and a query with blanks and an upper-case
\* letter are both set, and the rendered result keeps one item of two.
C2_Witness ==
  /\ phase = "loaded"
  /\ state.siteFilter = <<"x">>
  /\ state.query = <<" ", "A", " ", "b">>
  /\ Len(SelectedArray) = 2
  /\ getFilteredItems(state) = <<P2>>
  /\ lastRender = "done"
  /\ newsList.kind = "bySource"
  /\ resultCount = 1

\* C3 (as claimed): after the fetch has failed, #newsList shows the load
\* error and #updatedAt the failure label in every later state, whatever
\* events follow.
C3_ErrorTextPersists ==
  phase = "failed"
    => /\ newsList.kind = "error"
       /\ newsList.text # <<>>
       /\ updatedAt = <<"news load failed">>

\* The failure label of #updatedAt does persist: no listener writes it.
C3_FailureLabelPersists == phase = "failed" => updatedAt = <<"news load failed">>

\* C4: when loadNewsData rejects, mounted() of either Vue component ends
\* with loadError a non-empty message (holding the status code of a non-ok
\* response), followItems, followGroups and momoyuItems empty, momoyuParsed
\* and generatedAt null and the selected group keys empty, so that
\* updatedLabel is the failure label and followEmptyText and
\* momoyuEmptyText are loadError and not the "no data" placeholders; when
\* it fulfils, loadError is the empty string.
C4_MountedFailureState ==
  /\ vm.phase = "failed"
       => /\ vm.loadError # <<>>
          /\ vm.caught.kind = "http"
               => /\ vm.caught.status \in HttpStatuses
                  /\ Includes(vm.loadError, <<vm.caught.status>>)
          /\ vm.caught.message # <<>> => vm.loadError = vm.caught.message
          /\ vm.followItems = <<>>
          /\ vm.followGroups = <<>>
          /\ vm.momoyuItems = <<>>
          /\ vm.momoyuParsed = ParsedNull
          /\ vm.generatedAt = NULL
          /\ vm.variant = "groups"
               => /\ vm.selectedFollowGroupKey = <<>>
                  /\ vm.selectedMomoyuGroupKey = <<>>
          /\ updatedLabel(vm) = LOAD_FAILED
          /\ followEmptyText(vm) = vm.loadError
          /\ followEmptyText(vm) # FOLLOW_EMPTY
          /\ momoyuEmptyText(vm) = vm.loadError
          /\ momoyuEmptyText(vm) # MOMOYU_EMPTY
  /\ vm.phase = "loaded"
       => /\ vm.loadError = <<>>
          /\ updatedLabel(vm) # LOAD_FAILED
          /\ followEmptyText(vm) = FOLLOW_EMPTY
          /\ momoyuEmptyText(vm) = MOMOYU_EMPTY

\* C4 witness: the component with group selection caught the rejection of
\* a response with status 500.
C4_Witness ==
  /\ vm.variant = "groups"
  /\ vm.phase = "failed"
  /\ vm.caught.kind = "http"
  /\ vm.caught.status = "500"
  /\ followEmptyText(vm) = HttpMessage("500")

\* C4 second witness: the component without group selection caught an
\* error that carries no message.
C4_WitnessNoMessage ==
  /\ vm.variant = "plain"
  /\ vm.phase = "failed"
  /\ vm.caught.message = <<>>
  /\ vm.loadError = LOAD_FAILED

\* The accordion id and open flag of every panel of a #newsList content.
PanelsOf(list) ==
  {PanelAt(list, <<"group", 0, j>>) : j \in 1..Len(list.groups)}
    \cup {PanelAt(list, <<"site", i, 0>>) : i \in 1..Len(list.sites)}
    \cup UNION {{PanelAt(list, <<"source", i, j>>) :
                   j \in 1..Len(list.sites[i].sources)} : i \in 1..Len(list.sites)}

\* After a reload and before the next toggle, key k holds the value last
\* recorded for it and the panels rendered for k show it.
RoundTrips(k) ==
  /\ SavedValue(state.accordionState, k) = persisted.recorded[k]
  /\ \A p \in PanelsOf(newsList) :
       p.key = k => (p.open <=> persisted.recorded[k] = TRUE_V)

\* C5 (as claimed): after a toggle handler recorded value b for key k, the
\* map a later page load reads maps k to b, every other recorded key keeps
\* its last value, and a panel rendered for k is open exactly when b is
\* true.
C5_RoundTrip ==
  (reloads > 0 /\ persisted.fresh)
    => \A k \in DOMAIN persisted.recorded : RoundTrips(k)

\* C5 (amended): the round trip holds for the keys whose toggle handler's
\* setItem returned without throwing, when getItem does not throw at the
\* loads that follow.
C5_RoundTripWhenStorageWorks ==
  (reloads > 0 /\ persisted.fresh)
    => \A k \in persisted.saved : RoundTrips(k)

\* C5 witness: a panel was opened and saved, the page was reloaded and the
\* snapshot rendered: the panel of that key is open again.
C5_Witness ==
  /\ reloads > 0
  /\ persisted.fresh
  /\ phase = "loaded"
  /\ \E k \in persisted.saved :
       /\ persisted.recorded[k] = TRUE_V
       /\ SavedValue(state.accordionState, k) = TRUE_V
       /\ \E p \in PanelsOf(newsList) : p.key = k /\ p.open

\* C5 second witness: a panel was opened and closed again, and the reload
\* read the value false for its key.
C5_WitnessClosed ==
  /\ reloads > 0
  /\ persisted.fresh
  /\ \E k \in persisted.saved :
       /\ persisted.recorded[k] = FALSE_V
       /\ SavedValue(state.accordionState, k) = FALSE_V

\* After a load that read no usable map (getItem threw, nothing stored,
\* the text is not JSON or not an object) and before the first toggle, the
\* map is empty and a render that returned shows what renderList builds
\* from the state, every panel closed.
ReadFailureIsInvisible ==
  (persisted.fresh
     /\ (~persisted.readOk \/ storage.kind \in {"absent", "corrupt", "scalar"}))
    => /\ state.accordionState = EmptyMap
       /\ phase \in {"pending", "loaded", "failed"}
       /\ lastRender = "done"
            => /\ newsList = renderList(state, FALSE).newsList
               /\ \A p \in PanelsOf(newsList) : ~p.open

\* A step of the toggle listener: the toggled panel's key holds the
\* panel's new open flag in memory, whether or not the write threw, no
\* other key and no other field of the state changes, nothing of the page
\* changes but the toggled panel's open flag, and a refused write leaves
\* the storage as it was.
ToggleStepIsLocal ==
  toggles' = toggles + 1
    => \E path \in PanelPaths :
         LET node == PanelAt(newsList', path)
         IN /\ newsList' = FlipOpen(newsList, path)
            /\ SavedValue(state'.accordionState, node.key) = BoolVal(node.open)
            /\ DOMAIN state'.accordionState
                 = (DOMAIN state.accordionState) \cup {node.key}
            /\ \A k \in (DOMAIN state.accordionState) \ {node.key} :
                 state'.accordionState[k] = state.accordionState[k]
            /\ [state' EXCEPT !.accordionState = state.accordionState] = state
            /\ UNCHANGED <<phase, modeDom, siteDom, resultCount, updatedAt,
                           followDom, lastRender>>
            /\ node.key \notin persisted'.saved => storage' = storage
            /\ node.key \in persisted'.saved
                 => storage' = [kind |-> "json",
                                members |-> JsonStringify(state'.accordionState)]

\* C11: storage failures are not fatal and not visible: when reading the
\* saved map throws, finds nothing, finds a text that is not JSON or a JSON
\* value that is not an object, readAccordionState gives the empty map and
\* init goes on to fetch and render; when writing throws, the toggle
\* listener still records the panel's flag in memory and changes no other
\* field of the state and nothing else on the page.
C11_StorageFailuresAreInvisible ==
  []ReadFailureIsInvisible /\ [][ToggleStepIsLocal]_vars

\* C11 witness: a panel was opened while the storage refused the write
\* (the flag is in memory, the storage still holds nothing), on a page
\* that had rendered its snapshot.
C11_Witness ==
  /\ phase = "loaded"
  /\ lastRender = "done"
  /\ reloads = 0
  /\ storage = NoStorage
  /\ \E k \in DOMAIN persisted.recorded :
       /\ k \notin persisted.saved
       /\ SavedValue(state.accordionState, k) = TRUE_V
       /\ \E p \in PanelsOf(newsList) : p.key = k /\ p.open

\* C11 second witness: a saved map was in the storage, the load's getItem
\* threw, and the snapshot was rendered with every panel closed.
C11_WitnessReadThrew ==
  /\ phase = "loaded"
  /\ lastRender = "done"
  /\ persisted.fresh
  /\ ~persisted.readOk
  /\ storage.kind = "json"
  /\ \E m \in storage.members : m[2] = "true"
  /\ state.accordionState = EmptyMap
  /\ PanelsOf(newsList) # {}

\* Every panel of a #newsList content is open exactly when the map holds
\* the boolean true under the panel's key.
PanelsFollowMap(list, acc) ==
  \A p \in PanelsOf(list) : p.open <=> SavedValue(acc, p.key) = TRUE_V

\* A step of a handler that renders the list, and whose render returned:
\* lastRender is "done" after it, and it is neither the toggle listener
\* run for the user (toggles grows) nor for a queued "toggle" event
\* (notifyQueued is cleared), which leave lastRender alone.
ListRendered ==
  /\ lastRender' = "done"
  /\ toggles' = toggles
  /\ ~(notifyQueued /\ ~notifyQueued')

\* C12: accordion panels default to closed: after every render of the
\* list, whatever searches, filters, mode changes and toggles came before,
\* each site or source panel rendered is open if and only if
\* state.accordionState holds the boolean true under the panel's key; an
\* absent key and a value that is not a boolean render closed.
C12_PanelsOpenIffSavedTrue ==
  [][ListRendered => PanelsFollowMap(newsList', state'.accordionState)]_vars

\* C12 witness: after a toggle, a render has just opened a panel from the
\* map (its "toggle" event is still queued) beside a closed panel whose key
\* holds a string and a closed panel whose key is absent.
C12_Witness ==
  /\ lastRender = "done"
  /\ notifyQueued
  /\ toggles > 0
  /\ PanelsFollowMap(newsList, state.accordionState)
  /\ \E p \in PanelsOf(newsList) : p.open
  /\ \E p \in PanelsOf(newsList) :
       /\ ~p.open
       /\ p.key \in DOMAIN state.accordionState
       /\ state.accordionState[p.key] \notin {TRUE_V, FALSE_V}
  /\ \E p \in PanelsOf(newsList) : p.key \notin DOMAIN state.accordionState

\* C12 second witness: a search narrowed the list after a toggle, and the
\* panel whose key holds a string is rendered closed.
C12_WitnessAfterSearch ==
  /\ lastRender = "done"
  /\ toggles > 0
  /\ state.query # <<>>
  /\ state.mode = "all"
  /\ \E p \in PanelsOf(newsList) :
       /\ ~p.open
       /\ p.key \in DOMAIN state.accordionState
       /\ state.accordionState[p.key] \notin {TRUE_V, FALSE_V}

\* One fetch() has been issued since the page loaded; it is in flight
\* exactly while init awaits it, and its arrays are in the state exactly
\* when it was fulfilled.
OneFetchPerLoad ==
  /\ requests.issued = 1
  /\ requests.inFlight = (IF phase = "pending" THEN 1 ELSE 0)
  /\ requests.assigned = (IF phase = "loaded" THEN 1 ELSE 0)
  /\ (fetched # NoFetch) <=> (phase = "loaded")

\* No step of the page issues a fetch or puts one back in flight, and the
\* arrays assigned from the payload are assigned once.
NoSecondFetch ==
  /\ requests'.issued = requests.issued
  /\ requests'.inFlight <= requests.inFlight
  /\ requests.assigned = 1 => (requests'.assigned = 1 /\ fetched' = fetched)
  /\ phase # "pending" => phase' = phase

\* C13: exactly one snapshot fetch is issued per page load: init calls
\* loadNewsData once, and no search, site filter, mode, dedup or toggle
\* event and no fetch failure leads to a second fetch or a retry; two
\* fetches are never in flight and the fetched arrays are assigned at most
\* once.
C13_ExactlyOneFetch == []OneFetchPerLoad /\ [][NoSecondFetch]_vars

\* C13 witness: the fetch failed and a later search and mode click
\* rendered the page; still one fetch issued, none in flight.
C13_Witness ==
  /\ phase = "failed"
  /\ lastRender = "done"
  /\ state.query # <<>>
  /\ state.mode = "all"
  /\ requests = [issued |-> 1, inFlight |-> 0, assigned |-> 0]

\* C13 second witness: the fetch was fulfilled, and a toggle, a site
\* filter and a dedup change followed; the arrays were assigned once.
C13_WitnessLoaded ==
  /\ phase = "loaded"
  /\ toggles > 0
  /\ Truthy(state.siteFilter)
  /\ ~state.allDedup
  /\ requests = [issued |-> 1, inFlight |-> 0, assigned |-> 1]

\* The view-state fields the events before the fetch resolves leave.
ViewState(st) ==
  [query |-> st.query, siteFilter |-> st.siteFilter, mode |-> st.mode,
   allDedup |-> st.allDedup]

\* init's fulfilled branch keeps the view state and assigns the arrays of
\* the payload; list, result count, mode switch and site pills are what
\* the three render functions build from that state.
FreshRender ==
  /\ ViewState(state') = ViewState(state)
  /\ <<state'.itemsAi, state'.itemsAll, state'.itemsAllRaw>>
       = <<fetched'.itemsAi, fetched'.itemsAll, fetched'.itemsAllRaw>>
  /\ newsList' = renderList(state', FALSE).newsList
  /\ resultCount' = renderList(state', FALSE).resultCount
  /\ modeDom' = renderModeSwitch(state')
  /\ siteDom' = renderSiteFilters(state')

\* C14: events that arrive while the fetch is pending are not lost and
\* leave no stale render: whatever search, site filter, mode and dedup
\* events came before, the step in which the fetch succeeds leaves the
\* list, the result count, the mode switch and the site pills equal to
\* what renderList, renderModeSwitch and renderSiteFilters produce from
\* the loaded arrays under the query, siteFilter, mode and allDedup those
\* events left in the state.
C14_LoadRendersPendingEvents ==
  [][(phase = "pending" /\ phase' = "loaded") => FreshRender]_vars

\* The same for the loads whose render calls returned.
C14_LoadRendersWhenSortsReturn ==
  [][(phase = "pending" /\ phase' = "loaded" /\ lastRender' = "done")
       => FreshRender]_vars

\* A load that rendered a search text, the "all" mode and the dedup switch
\* set before the fetch resolved (no listener ran since: the list shows
\* fewer items than the array the mode selects).
C14_WitnessPendingEvents ==
  /\ phase = "loaded"
  /\ lastRender = "done"
  /\ updatedAt # <<"initial">>
  /\ state.mode = "all"
  /\ ~state.allDedup
  /\ Trim(state.query) # <<>>
  /\ modeDom = renderModeSwitch(state)
  /\ resultCount < Len(state.itemsAllRaw)

\* C15: in every state after a successful load, the active site filter
\* is empty or the site_id of at least one item of the array the mode and
\* the dedup switch select, that is, it corresponds to a pill or option
\* renderSiteFilters builds; whatever pill clicks, select changes, mode
\* clicks and dedup changes came before.
C15_SiteFilterMatchesSelectedArray ==
  phase = "loaded"
    => \/ state.siteFilter = <<>>
       \/ \E i \in 1..Len(SelectedArray) : SelectedArray[i].site_id = state.siteFilter

\* What the listeners do establish: with the pills and options of the
\* current state on the page, a step that changes the site filter sets it
\* to the empty text or to the site_id, as the pill holds it or as the
\* option's value spells it, of an item of the selected array.
C15_FilterMatchesWhenSet ==
  [][(/\ phase = "loaded"
      /\ siteDom.stats = renderSiteFilters(state).stats
      /\ state'.siteFilter # state.siteFilter)
       => \/ state'.siteFilter = <<>>
          \/ \E i \in 1..Len(SelectedArray) :
               state'.siteFilter \in {SelectedArray[i].site_id,
                                      Str(SelectedArray[i].site_id)}]_vars

\* The panels the page renders for a list of items, in the two-level view
\* and in the single-level view of each site a filter can select, each with
\* its grouping context, its group name and its accordion id.
PanelKeys(items) ==
  LET sites == {items[i].site_id : i \in 1..Len(items)}
      sourcesOf(site) ==
        {SourceKey(items[i]) : i \in {n \in 1..Len(items) : items[n].site_id = site}}
  IN {[view |-> "twoLevel", kind |-> "site", site |-> site, name |-> site,
       key |-> makeAccordionId(<<SITE, site>>)] : site \in sites}
       \cup UNION {{[view |-> "twoLevel", kind |-> "source", site |-> site,
                     name |-> n,
                     key |-> makeAccordionId(<<SOURCE, SiteCtx(site), n>>)] :
                       n \in sourcesOf(site)} : site \in sites}
       \cup UNION {{[view |-> "siteFiltered", kind |-> "source", site |-> site,
                     name |-> n,
                     key |-> makeAccordionId(<<SOURCE, SiteCtx(site), n>>)] :
                       n \in sourcesOf(site)} : site \in {t \in sites : Truthy(t)}}

\* C6 (as claimed): two panels that differ in grouping context (site panel
\* or source panel, the site they are under, the single-level or the
\* two-level view) or in group name never receive the same accordion id,
\* whatever site_id and source values the snapshot holds.
C6_KeysAreCollisionFree ==
  phase = "loaded"
    => \A p, q \in PanelKeys(SelectedArray) : p.key = q.key => p = q

\* The part of C6 the code keeps: within the two-level view, the panels of
\* sites whose site_id is a non-empty string have pairwise distinct ids.
C6_KeysDistinctInTwoLevelView ==
  \A p, q \in PanelKeys(SelectedArray) :
    (/\ p.view = "twoLevel" /\ q.view = "twoLevel"
     /\ Truthy(p.site) /\ Truthy(q.site)
     /\ p.key = q.key) => p = q

\* The sum of the numbers of a sequence.
RECURSIVE SumSeq(_)
SumSeq(ns) == IF ns = <<>> THEN 0 ELSE Head(ns) + SumSeq(Tail(ns))

\* The concatenation of a sequence of sequences.
RECURSIVE Flatten(_)
Flatten(ss) == IF ss = <<>> THEN <<>> ELSE Head(ss) \o Flatten(Tail(ss))

\* The number of positions of seq holding e.
Occurrences(seq, e) == Cardinality({i \in 1..Len(seq) : seq[i] = e})

\* a and b hold the same elements the same number of times.
SameBag(a, b) ==
  /\ Len(a) = Len(b)
  /\ \A i \in 1..Len(a) : Occurrences(a, a[i]) = Occurrences(b, a[i])

\* The items shown under a sequence of source panels.
PanelItems(panels) == Flatten([i \in 1..Len(panels) |-> panels[i].items])

\* The items shown in #newsList.
ShownItems ==
  IF newsList.kind = "bySource" THEN PanelItems(newsList.groups)
  ELSE Flatten([i \in 1..Len(newsList.sites) |-> PanelItems(newsList.sites[i].sources)])

\* The displayed counts of the outermost groups of #newsList.
ShownCounts ==
  IF newsList.kind = "bySource"
  THEN [i \in 1..Len(newsList.groups) |-> newsList.groups[i].count]
  ELSE [i \in 1..Len(newsList.sites) |-> newsList.sites[i].count]

\* Grouping partitions the rendered list: every filtered item is shown
\* exactly once, each group's count is the number of its items, and the
\* counts add up to the result count.
ListIsPartition ==
  /\ SameBag(ShownItems, getFilteredItems(state))
  /\ SumSeq(ShownCounts) = Len(getFilteredItems(state))
  /\ SumSeq(ShownCounts) = resultCount
  /\ \A i \in 1..Len(newsList.groups) :
       newsList.groups[i].count = Len(newsList.groups[i].items)
  /\ \A i \in 1..Len(newsList.sites) :
       /\ newsList.sites[i].count = Len(PanelItems(newsList.sites[i].sources))
       /\ \A j \in 1..Len(newsList.sites[i].sources) :
            newsList.sites[i].sources[j].count
              = Len(newsList.sites[i].sources[j].items)

\* The per-site counts of the site pills add up to the length of the
\* mode-selected array.
StatsArePartition ==
  SumSeq([i \in 1..Len(siteDom.stats) |-> siteDom.stats[i].count]) = Len(SelectedArray)

\* C7 (as claimed): for every item list a handler renders, the source
\* groups and the site groups with their nested source groups hold each
\* filtered item exactly once and their counts add up to the result count,
\* and computeSiteStats yields per-site counts that add up to the length of
\* the mode-selected array.
C7_GroupingIsPartition ==
  (phase = "loaded" /\ lastRender # "none")
    => /\ lastRender = "done"
       /\ ListIsPartition
       /\ StatsArePartition

\* The part of C7 the code keeps: whenever renderList returns, the rendered
\* groups partition the filtered list, and the rows computeSiteStats
\* aggregates (were its sort to return) partition the mode-selected array.
C7_PartitionWhenRendered ==
  /\ lastRender = "done" => ListIsPartition
  /\ LET stats == computeSiteStats(SelectedArray)
     IN SumSeq([i \in 1..Len(stats) |-> stats[i].count]) = Len(SelectedArray)

\* A sequence of rows is in descending count order, rows of equal count in
\* ascending name order.
Ordered(counts, names) ==
  \A i, j \in 1..Len(counts) :
    i < j => \/ counts[i] > counts[j]
             \/ /\ counts[i] = counts[j]
                /\ localeCompare(Str(names[i]), Str(names[j])) <= 0

PanelCounts(panels) == [i \in 1..Len(panels) |-> panels[i].count]

PanelSources(panels) == [i \in 1..Len(panels) |-> panels[i].source]

PanelSiteNames(panels) == [i \in 1..Len(panels) |-> panels[i].siteName]

\* The rendered stats rows, source groups and site groups are ordered.
AllOrdered ==
  /\ Ordered(RowCounts(siteDom.stats), RowSiteNames(siteDom.stats))
  /\ Ordered(PanelCounts(newsList.groups), PanelSources(newsList.groups))
  /\ Ordered(PanelCounts(newsList.sites), PanelSiteNames(newsList.sites))
  /\ \A i \in 1..Len(newsList.sites) :
       Ordered(PanelCounts(newsList.sites[i].sources),
               PanelSources(newsList.sites[i].sources))

\* C8 (as claimed): for every item list, items without site_name included,
\* computeSiteStats, groupBySource and the site grouping yield their
\* groups in descending count order, equal counts in ascending name order.
C8_OutputsAreOrdered ==
  (phase = "loaded" /\ lastRender # "none")
    => lastRender = "done" /\ AllOrdered

\* The part of C8 the code keeps: whenever the sorts return, their outputs
\* are ordered.
C8_OrderedWhenRendered ==
  (phase = "loaded" /\ lastRender = "done") => AllOrdered

\* C9: after a successful load no listener changes the fetched arrays, so
\* that with the site filter and the query cleared the filtered list is
\* again the fetched array of the current mode.
C9_FetchedArraysUnchanged ==
  phase = "loaded"
    => /\ state.itemsAi = fetched.itemsAi
       /\ state.itemsAll = fetched.itemsAll
       /\ state.itemsAllRaw = fetched.itemsAllRaw
       /\ (state.query = <<>> /\ state.siteFilter = <<>>)
            => getFilteredItems(state)
                 = (IF state.mode = "ai" THEN fetched.itemsAi
                    ELSE IF state.allDedup THEN fetched.itemsAll
                    ELSE fetched.itemsAllRaw)

\* C9 witness: a loaded page on which a query and a site filter were set
\* and hide an item, "all" mode with dedup off was chosen, and the render
\* calls returned.
C9_Witness ==
  /\ phase = "loaded"
  /\ state.mode = "all" /\ ~state.allDedup
  /\ state.query = <<" ", "A", " ", "b">>
  /\ state.siteFilter = <<"x">>
  /\ Len(fetched.itemsAllRaw) = 2
  /\ Len(getFilteredItems(state)) = 1
  /\ lastRender = "done"

\* The layout of #newsList and the result count are those the claim
\* states for the current state.
LayoutFollowsState ==
  LET filtered == getFilteredItems(state)
  IN /\ resultCount = Len(filtered)
     /\ Len(filtered) = 0
          => newsList = ListDom("empty", <<>>, <<>>, <<>>)
     /\ (Len(filtered) > 0 /\ Truthy(state.siteFilter))
          => /\ newsList.kind = "bySource"
             /\ newsList.sites = <<>>
             /\ Len(newsList.groups) > 0
             /\ SameBag(PanelItems(newsList.groups), filtered)
     /\ (Len(filtered) > 0 /\ ~Truthy(state.siteFilter))
          => /\ newsList.kind = "bySite"
             /\ newsList.groups = <<>>
             /\ Len(newsList.sites) > 0
             /\ \A i \in 1..Len(newsList.sites) :
                  /\ Len(newsList.sites[i].sources) > 0
                  /\ \A j \in 1..Len(newsList.sites[i].sources) :
                       \A k \in 1..Len(newsList.sites[i].sources[j].items) :
                         newsList.sites[i].sources[j].items[k].site_id
                           = newsList.sites[i].site_id
     /\ (state.mode = "ai" /\ state.itemsAi = <<P1, P3>> /\ Trim(state.query) = <<>>)
          => /\ state.siteFilter = <<>>
                  => /\ resultCount = 2
                     /\ {<<newsList.sites[i].site_id,
                           PanelItems(newsList.sites[i].sources)>> :
                             i \in 1..Len(newsList.sites)}
                          = {<<(<<"x">>), <<P1>>>>, <<(<<"y">>), <<P3>>>>}
             /\ state.siteFilter = <<"x">>
                  => /\ newsList.kind = "bySource"
                     /\ PanelItems(newsList.groups) = <<P1>>

\* C10 (as claimed): whenever renderList has run, the list shows the
\* layout the current state selects: the placeholder and no groups for an
\* empty filtered list, source groups only under a site filter, site groups
\* holding source groups otherwise; the snapshot items_ai = [A of site x,
\* B of site y] gives the site groups x: [A], y: [B] with result count 2,
\* and source groups of [A] alone under the site filter x.
C10_LayoutFollowsState ==
  lastRender \in {"done", "listThrew"} => LayoutFollowsState

\* The part of C10 the code keeps: whenever renderList returns, the list
\* shows the layout the current state selects.
C10_LayoutWhenRendered == lastRender = "done" => LayoutFollowsState

\* A state of the example of C10: the snapshot [A of site x, B of site y]
\* rendered under the site filter x as source groups only.
C10_ExampleSingleLevel ==
  /\ phase = "loaded"
  /\ lastRender = "done"
  /\ state.mode = "ai" /\ state.itemsAi = <<P1, P3>>
  /\ state.query = <<>>
  /\ state.siteFilter = <<"x">>
  /\ newsList.kind = "bySource"
  /\ Len(newsList.groups) = 1

\* A state of the example of C10: the two-level layout of the same snapshot.
C10_ExampleTwoLevel ==
  /\ phase = "loaded"
  /\ lastRender = "done"
  /\ state.mode = "ai" /\ state.itemsAi = <<P1, P3>>
  /\ state.siteFilter = <<>>
  /\ newsList.kind = "bySite"
  /\ Len(newsList.sites) = 2

====
